---- MODULE Spec2Model ----
(***************************************************************************)
(* Reconciliation engine of SuperGrobid                                    *)
(* (System I Parse and Extractor v2/supergrobid/reconciliation.py), the    *)
(* similarity / bounding-box helpers of supergrobid/utils.py and the       *)
(* parser of supergrobid/core.py that drives them.                         *)
(*                                                                         *)
(* A behaviour is one of: a call of reconcile on a document, a call of a   *)
(* helper of utils.py on its own, or the life of a parser (parse,          *)
(* parse_batch and update_config calls, each parse running reconcile).     *)
(*                                                                         *)
(* Conventions                                                             *)
(*   - a text is a sequence of one-character strings;                      *)
(*   - a Python dict is a record, a missing key is a missing field         *)
(*     (tested with DOMAIN);                                               *)
(*   - fragment indices and the cursor are 0-based as in the source, so    *)
(*     fragment i is pymupdf_output[i + 1];                                *)
(*   - a similarity / confidence is the integer percentage p that stands   *)
(*     for the float p / 100.0, thresholds likewise;                       *)
(*   - a bounding box is <<x0, y0, x1, y1>>.                               *)
(***************************************************************************)
EXTENDS Integers, Sequences, FiniteSets, TLC

VARIABLES
    nougat_output,        \* input: structural elements
    pymupdf_output,       \* input: ground-truth fragments
    engine,               \* attributes set by ReconciliationEngine.__init__
    pc,                   \* "main", "orphans", "done" or "raised"
    element_index,        \* position of the for loop over nougat_output
    pymupdf_index,        \* the fragment cursor
    used_pymupdf_blocks,  \* the consumed set
    reconciled,           \* the list built by the main pass
    orphan_elements,      \* the list built by _handle_orphan_blocks
    block_index,          \* position of the for loop over pymupdf_output
    returned,             \* the list reconcile returns (<<>> until it does)
    main_pass,            \* history: reconciled as the main pass left it
    last,                 \* history: what the latest step did
    bbox_ref,             \* which list object each "bbox" of reconciled is
    call,                 \* a call of a helper of utils.py: its arguments
    result,               \* the outcome of that call
    config,               \* SuperGrobidParser.config
    pdf_paths,            \* the argument of parse_batch
    results,              \* the list parse_batch builds
    parser_pc             \* where the parser is

(* the helpers of utils.py called on their own *)
util_vars == <<call, result>>

(* SuperGrobidParser, apart from its reconciliation engine *)
parser_vars == <<config, pdf_paths, results, parser_pc>>

(* one call of ReconciliationEngine.reconcile, apart from the engine *)
reconcile_vars ==
    <<nougat_output, pymupdf_output, pc, element_index, pymupdf_index,
      used_pymupdf_blocks, reconciled, orphan_elements, block_index,
      returned, main_pass, last, bbox_ref>>

vars == <<reconcile_vars, engine, util_vars, parser_vars>>

----------------------------------------------------------------------------
(* Bounds of the explored inputs *)

MaxFrags == 3

MaxElems == 2

MaxLongFrags == 11

----------------------------------------------------------------------------
(* Generic helpers *)

Min(a, b) == IF a < b THEN a ELSE b

Max(a, b) == IF a > b THEN a ELSE b

MinOf(S) == CHOOSE x \in S : \A y \in S : x <= y

MaxOf(S) == CHOOSE x \in S : \A y \in S : x >= y

HasKey(d, k) == k \in DOMAIN d

(* dict.get(k, default) *)
Get(d, k, default) == IF HasKey(d, k) THEN d[k] ELSE default

Range(s) == {s[i] : i \in 1..Len(s)}

(* str.lower() on the characters the inputs use *)
Lower(c) ==
    CASE c = "T" -> "t"
      [] c = "C" -> "c"
      [] c = "A" -> "a"
      [] OTHER -> c

LowerText(t) == [i \in 1..Len(t) |-> Lower(t[i])]

(* " ".join(texts) *)
RECURSIVE Join(_)
Join(texts) ==
    IF Len(texts) = 0 THEN <<>>
    ELSE IF Len(texts) = 1 THEN texts[1]
    ELSE texts[1] \o <<" ">> \o Join(Tail(texts))

(* bool(text.strip()): some character is not whitespace *)
StripNonEmpty(t) == \E i \in 1..Len(t) : t[i] # " "

----------------------------------------------------------------------------
(* fuzz.ratio: 100 * 2 * M / T rounded to an integer, M the number of      *)
(* matched characters (longest common subsequence), T the total length.    *)

RECURSIVE LCSRow(_, _, _, _)
LCSRow(prev, a, c, acc) ==
    LET i == Len(acc) + 1
        diag == IF i = 1 THEN 0 ELSE prev[i - 1]
        left == IF i = 1 THEN 0 ELSE acc[i - 1]
    IN IF i > Len(a) THEN acc
       ELSE LCSRow(prev, a, c,
                   Append(acc, IF a[i] = c THEN diag + 1
                               ELSE Max(prev[i], left)))

RECURSIVE LCSRows(_, _, _, _)
LCSRows(a, b, j, prev) ==
    IF j > Len(b) THEN prev
    ELSE LET row == LCSRow(prev, a, b[j], <<>>)
         IN IF Len(row) = Len(a)       \* always true: row j is complete
            THEN LCSRows(a, b, j + 1, row)
            ELSE row

LCSLength(a, b) ==
    IF Len(a) = 0 \/ Len(b) = 0 THEN 0
    ELSE LCSRows(a, b, 1, [i \in 1..Len(a) |-> 0])[Len(a)]

(* int(round(100 * num / den)), ties to even as Python's round *)
RoundPercent(num, den) ==
    LET q == (100 * num) \div den
        r == (100 * num) % den
    IN IF 2 * r > den THEN q + 1
       ELSE IF 2 * r < den THEN q
       ELSE IF q % 2 = 0 THEN q ELSE q + 1

FuzzRatio(s1, s2) ==
    IF s1 = s2 THEN 100
    ELSE IF Len(s1) = 0 \/ Len(s2) = 0 THEN 0
    ELSE RoundPercent(2 * LCSLength(s1, s2), Len(s1) + Len(s2))

(* fuzz.partial_ratio: the best fuzz.ratio of the shorter string against  *)
(* a substring of the longer string of the shorter one's length           *)
PartialRatio(s1, s2) ==
    LET shorter == IF Len(s1) <= Len(s2) THEN s1 ELSE s2
        longer == IF Len(s1) <= Len(s2) THEN s2 ELSE s1
        m == Len(shorter)
    IN IF m = 0 THEN 0
       ELSE MaxOf({FuzzRatio(shorter, SubSeq(longer, k, k + m - 1)) :
                         k \in 1..(Len(longer) - m + 1)})

(* the tokens of TfidfVectorizer(stop_words='english'): lower-cased       *)
(* maximal runs of two or more word characters that are no English stop   *)
(* word; the separators of the inputs are " " and ".", their one stop     *)
(* word is "the"                                                          *)
IsSeparator(c) == c \in {" ", "."}

StopWords == {<<"t", "h", "e">>}

RECURSIVE Tokenize(_, _, _)
Tokenize(text, current, acc) ==
    LET closed == IF Len(current) >= 2 /\ current \notin StopWords
                  THEN Append(acc, current) ELSE acc
    IN IF text = <<>> THEN closed
       ELSE IF IsSeparator(Head(text)) THEN Tokenize(Tail(text), <<>>, closed)
       ELSE Tokenize(Tail(text), Append(current, Lower(Head(text))), acc)

Tokens(text) == Tokenize(text, <<>>, <<>>)

TermCount(tokens, w) == Cardinality({i \in 1..Len(tokens) : tokens[i] = w})

RECURSIVE SumOver(_, _)
SumOver(S, f) ==
    IF S = {} THEN 0
    ELSE LET x == CHOOSE y \in S : TRUE
         IN f[x] + SumOver(S \ {x}, f)

(* 40 * idf^2 of a term that occurs in one of the two documents only:     *)
(* idf = ln((1 + 2) / (1 + 1)) + 1, idf^2 = 1.975; a term of both         *)
(* documents has idf 1                                                    *)
IdfSquaredFortieths == 79

(* cosine_similarity of the two tf-idf rows, as a percentage rounded      *)
(* down; fit_transform raises on an empty vocabulary and the bare except  *)
(* turns that into 0.0                                                    *)
CosinePercent(text1, text2) ==
    LET t1 == Tokens(text1)
        t2 == Tokens(text2)
        v1 == {t1[i] : i \in 1..Len(t1)}
        v2 == {t2[i] : i \in 1..Len(t2)}
        weight(w) == IF w \in v1 \cap v2 THEN 40 ELSE IdfSquaredFortieths
        dot == SumOver(v1 \cap v2,
                       [w \in v1 \cap v2 |->
                           TermCount(t1, w) * TermCount(t2, w)])
        norm1 == SumOver(v1, [w \in v1 |->
                           weight(w) * TermCount(t1, w) * TermCount(t1, w)])
        norm2 == SumOver(v2, [w \in v2 |->
                           weight(w) * TermCount(t2, w) * TermCount(t2, w)])
    IN IF v1 \cup v2 = {} THEN 0
       ELSE IF dot = 0 THEN 0
       ELSE MaxOf({q \in 0..100 :
                      q * q * norm1 * norm2 <= 10000 * 40 * 40 * dot * dot})

SupportedMethods == {"levenshtein", "fuzzy", "cosine"}

(* calculate_similarity raises ValueError *)
SimilarityRaises(text1, text2, method) ==
    /\ Len(text1) # 0
    /\ Len(text2) # 0
    /\ method \notin SupportedMethods

(* variant of calculate_similarity: no early return for empty inputs *)
calculate_similarity_unguarded(text1, text2, method) ==
    CASE method = "levenshtein" ->
            FuzzRatio(LowerText(text1), LowerText(text2))
      [] method = "fuzzy" ->
            PartialRatio(LowerText(text1), LowerText(text2))
      [] method = "cosine" -> CosinePercent(text1, text2)
      [] OTHER -> 0

(* calculate_similarity, where it returns (0 stands in where it raises) *)
calculate_similarity(text1, text2, method) ==
    IF Len(text1) = 0 \/ Len(text2) = 0 THEN 0
    ELSE CASE method = "levenshtein" ->
                 FuzzRatio(LowerText(text1), LowerText(text2))
           [] method = "fuzzy" ->
                 PartialRatio(LowerText(text1), LowerText(text2))
           [] method = "cosine" -> CosinePercent(text1, text2)
           [] OTHER -> 0

----------------------------------------------------------------------------
(* Bounding boxes *)

(* variant of merge_bboxes: only the first and the last box are merged *)
merge_bboxes_ends(bboxes) ==
    IF Len(bboxes) = 0 THEN <<0, 0, 0, 0>>
    ELSE <<MinOf({bboxes[i][1] : i \in {1, Len(bboxes)}}),
           MinOf({bboxes[i][2] : i \in {1, Len(bboxes)}}),
           MaxOf({bboxes[i][3] : i \in {1, Len(bboxes)}}),
           MaxOf({bboxes[i][4] : i \in {1, Len(bboxes)}})>>

merge_bboxes(bboxes) ==
    IF Len(bboxes) = 0 THEN <<0, 0, 0, 0>>
    ELSE <<MinOf({bboxes[i][1] : i \in 1..Len(bboxes)}),
           MinOf({bboxes[i][2] : i \in 1..Len(bboxes)}),
           MaxOf({bboxes[i][3] : i \in 1..Len(bboxes)}),
           MaxOf({bboxes[i][4] : i \in 1..Len(bboxes)})>>

(* calculate_bbox_distance returns d = sqrt(dx^2 + dy^2) between the two   *)
(* centers; the model keeps (2d)^2, an integer, which orders as d does.    *)
calculate_bbox_distance(bbox1, bbox2) ==
    LET dx == (bbox1[1] + bbox1[3]) - (bbox2[1] + bbox2[3])
        dy == (bbox1[2] + bbox1[4]) - (bbox2[2] + bbox2[4])
    IN dx * dx + dy * dy

----------------------------------------------------------------------------
(* ReconciliationEngine._find_matching_blocks *)

TextTypes == {"header", "paragraph", "list"}

NonTextTypes == {"figure", "table"}

(* pymupdf_output[i:i + window_size] as fragment indices *)
WindowBlocks(i, window_size) == [k \in 1..window_size |-> i + k - 1]

(* variant of BlocksText: the texts are joined without a separator *)
RECURSIVE Concat(_)
Concat(texts) ==
    IF Len(texts) = 0 THEN <<>> ELSE texts[1] \o Concat(Tail(texts))

BlocksTextNoSeparator(blocks, indices) ==
    Concat([k \in 1..Len(indices) |-> blocks[indices[k] + 1].text])

(* " ".join([block["text"] for block in window_blocks]) *)
BlocksText(blocks, indices) ==
    Join([k \in 1..Len(indices) |-> blocks[indices[k] + 1].text])

(* the stop value of range(1, min(10, len(pymupdf_output) - start_index + 1)) *)
WindowSizeStop(n, start_index) == Min(10, n - start_index + 1)

(* variant of NoMatch: the end index starts at 0, not at start_index *)
NoMatchFromZero(start_index) ==
    [matched_blocks |-> <<>>, new_index |-> 0, similarity |-> 0,
     visited |-> {}]

(* nothing found yet; visited is a history of the windows scored so far, *)
(* each as <<window_size, i>>                                             *)
NoMatch(start_index) ==
    [matched_blocks |-> <<>>, new_index |-> start_index, similarity |-> 0,
     visited |-> {}]

(* the inner loop: for i in range(start_index, len(pymupdf_output) - window_size + 1) *)
RECURSIVE ScanStarts(_, _, _, _, _, _)
ScanStarts(nougat_text, blocks, method, window_size, i, best) ==
    IF i >= Len(blocks) - window_size + 1 THEN best
    ELSE LET window_blocks == WindowBlocks(i, window_size)
             similarity == calculate_similarity(
                 nougat_text, BlocksText(blocks, window_blocks), method)
         IN ScanStarts(nougat_text, blocks, method, window_size, i + 1,
                IF similarity > best.similarity
                THEN [matched_blocks |-> window_blocks,
                      new_index |-> i + window_size,
                      similarity |-> similarity,
                      visited |-> best.visited \cup {<<window_size, i>>}]
                ELSE [best EXCEPT !.visited = @ \cup {<<window_size, i>>}])

(* the outer loop: for window_size in range(1, stop) *)
RECURSIVE ScanSizes(_, _, _, _, _, _, _)
ScanSizes(nougat_text, blocks, method, start_index, window_size, stop, best) ==
    IF window_size >= stop THEN best
    ELSE LET after == ScanStarts(nougat_text, blocks, method, window_size,
                                 start_index, best)
         IN IF after.similarity >= 0   \* always true: a score is never negative
            THEN ScanSizes(nougat_text, blocks, method, start_index,
                           window_size + 1, stop, after)
            ELSE after

(* variant of find_matching_blocks: among the windows of the best score    *)
(* the last one found wins, as if the comparison were >=                  *)
find_matching_blocks_last_wins(nougat_text, blocks, start_index, method) ==
    LET m == ScanSizes(nougat_text, blocks, method, start_index, 1,
                       WindowSizeStop(Len(blocks), start_index),
                       NoMatch(start_index))
        ties == {x \in m.visited :
                    calculate_similarity(
                        nougat_text,
                        BlocksText(blocks, WindowBlocks(x[2], x[1])),
                        method) = m.similarity}
        latest == CHOOSE x \in ties :
                     \A y \in ties :
                        y[1] < x[1] \/ (y[1] = x[1] /\ y[2] <= x[2])
    IN IF m.similarity = 0 THEN m
       ELSE [m EXCEPT !.matched_blocks = WindowBlocks(latest[2], latest[1]),
                      !.new_index = latest[2] + latest[1]]

(* variant of find_matching_blocks: the search ignores the cursor *)
find_matching_blocks_from_zero(nougat_text, blocks, start_index, method) ==
    ScanSizes(nougat_text, blocks, method, 0, 1,
              WindowSizeStop(Len(blocks), 0), NoMatch(0))

find_matching_blocks(nougat_text, blocks, start_index, method) ==
    ScanSizes(nougat_text, blocks, method, start_index, 1,
              WindowSizeStop(Len(blocks), start_index), NoMatch(start_index))

(* some call of calculate_similarity in the double loop raises *)
MatcherRaises(nougat_text, blocks, start_index, method) ==
    /\ method \notin SupportedMethods
    /\ \E x \in find_matching_blocks(nougat_text, blocks, start_index,
                                  method).visited :
           SimilarityRaises(nougat_text,
                            BlocksText(blocks, WindowBlocks(x[2], x[1])),
                            method)

----------------------------------------------------------------------------
(* ReconciliationEngine.reconcile, the main pass *)

BlockBBoxes(blocks, indices) ==
    [k \in 1..Len(indices) |-> blocks[indices[k] + 1].bbox]

(* variant of TextBranch: any matched run is accepted, whatever its score *)
TextBranchNoThreshold(m, eng) ==
    IF m.matched_blocks # <<>>
    THEN "exact"
    ELSE IF m.similarity >= eng.hallucination_threshold
    THEN "flagged"
    ELSE "discard"

(* variant of TextBranch: the detection threshold is exclusive *)
TextBranchExclusive(m, eng) ==
    IF m.matched_blocks # <<>> /\ m.similarity >= eng.similarity_threshold
    THEN "exact"
    ELSE IF m.similarity > eng.hallucination_threshold
    THEN "flagged"
    ELSE "discard"

(* which branch of the if / elif / else the matcher's result selects *)
TextBranch(m, eng) ==
    IF m.matched_blocks # <<>> /\ m.similarity >= eng.similarity_threshold
    THEN "exact"
    ELSE IF m.similarity >= eng.hallucination_threshold
    THEN "flagged"
    ELSE "discard"

(* variant of AcceptedElement: the structural element's text is kept *)
AcceptedElementOwnText(element, m, blocks) ==
    [type |-> element.type,
     text |-> element.text,
     blocks |-> m.matched_blocks,
     bbox |-> merge_bboxes(BlockBBoxes(blocks, m.matched_blocks)),
     page |-> blocks[m.matched_blocks[1] + 1].page,
     confidence |-> m.similarity]

(* the dict appended on the accept branch *)
AcceptedElement(element, m, blocks) ==
    [type |-> element.type,
     text |-> BlocksText(blocks, m.matched_blocks),
     blocks |-> m.matched_blocks,
     bbox |-> merge_bboxes(BlockBBoxes(blocks, m.matched_blocks)),
     page |-> blocks[m.matched_blocks[1] + 1].page,
     confidence |-> m.similarity]

(* variant of FlaggedElement: the bbox is always the placeholder *)
FlaggedElementPlaceholderBox(element, m) ==
    [type |-> element.type,
     text |-> element.text,
     blocks |-> <<>>,
     bbox |-> <<0, 0, 0, 0>>,
     page |-> Get(element, "page", 1),
     confidence |-> m.similarity,
     hallucination_warning |-> TRUE]

(* the dict appended on the hallucination branch *)
FlaggedElement(element, m) ==
    [type |-> element.type,
     text |-> element.text,
     blocks |-> <<>>,
     bbox |-> Get(element, "bbox", <<0, 0, 0, 0>>),
     page |-> Get(element, "page", 1),
     confidence |-> m.similarity,
     hallucination_warning |-> TRUE]

(* variant of MarkUsed: the fragment at new_index is marked too *)
MarkUsedInclusive(used, index, new_index) == used \cup (index..new_index)

(* variant of MarkUsed: the matched fragments are not marked *)
MarkUsedNothing(used, index, new_index) == used

(* for i in range(pymupdf_index, new_index): used_pymupdf_blocks.add(i) *)
MarkUsed(used, index, new_index) == used \cup (index..(new_index - 1))

(* variant of find_previous_text_blocks: only the nearest fragment *)
find_previous_text_blocks_nearest(n, current_index) ==
    LET start_index == Max(0, current_index - 1)
    IN [k \in 1..(current_index - start_index) |-> start_index + k - 1]

(* _find_previous_text_blocks / _find_next_text_blocks, max_blocks = 3 *)
find_previous_text_blocks(n, current_index) ==
    LET start_index == Max(0, current_index - 3)
    IN [k \in 1..(current_index - start_index) |-> start_index + k - 1]

(* variant of find_next_text_blocks: the window starts after the fragment *)
(* at the cursor                                                          *)
find_next_text_blocks_after(n, current_index) ==
    LET end_index == Min(n, current_index + 1 + 3)
    IN [k \in 1..(end_index - current_index - 1) |-> current_index + k]

find_next_text_blocks(n, current_index) ==
    LET end_index == Min(n, current_index + 3)
    IN [k \in 1..(end_index - current_index) |-> current_index + k - 1]

calculate_element_bbox(blocks, prev_blocks, next_blocks) ==
    IF prev_blocks = <<>> /\ next_blocks = <<>> THEN <<0, 0, 0, 0>>
    ELSE merge_bboxes(BlockBBoxes(blocks, prev_blocks \o next_blocks))

(* variant of handle_non_text_element: both windows must be non-empty *)
handle_non_text_element_both(element, blocks, index) ==
    LET prev_blocks == find_previous_text_blocks(Len(blocks), index)
        next_blocks == find_next_text_blocks(Len(blocks), index)
    IN IF prev_blocks # <<>> /\ next_blocks # <<>>
       THEN <<[type |-> element.type,
               text |-> Get(element, "text", <<>>),
               bbox |-> calculate_element_bbox(blocks, prev_blocks, next_blocks),
               page |-> Get(element, "page", 1),
               confidence |-> Get(element, "confidence", 100),
               surrounding_blocks |-> [previous |-> prev_blocks,
                                       next |-> next_blocks]]>>
       ELSE <<>>

(* _handle_non_text_element: <<dict>>, or <<>> where it returns None *)
handle_non_text_element(element, blocks, index) ==
    LET prev_blocks == find_previous_text_blocks(Len(blocks), index)
        next_blocks == find_next_text_blocks(Len(blocks), index)
    IN IF prev_blocks # <<>> \/ next_blocks # <<>>
       THEN <<[type |-> element.type,
               text |-> Get(element, "text", <<>>),
               bbox |-> calculate_element_bbox(blocks, prev_blocks, next_blocks),
               page |-> Get(element, "page", 1),
               confidence |-> Get(element, "confidence", 100),
               surrounding_blocks |-> [previous |-> prev_blocks,
                                       next |-> next_blocks]]>>
       ELSE <<>>

----------------------------------------------------------------------------
(* ReconciliationEngine._handle_orphan_blocks and its helpers *)

(* the loop of _find_nearest_element from element k on; nearest is an      *)
(* index into reconciled (0 for None), min_distance is -1 for float('inf') *)
RECURSIVE NearestScan(_, _, _, _, _)
NearestScan(block, elements, k, nearest, min_distance) ==
    IF k > Len(elements) THEN nearest
    ELSE IF elements[k].page = block.page
    THEN LET distance == calculate_bbox_distance(block.bbox, elements[k].bbox)
         IN IF min_distance = -1 \/ distance < min_distance
            THEN NearestScan(block, elements, k + 1, k, distance)
            ELSE NearestScan(block, elements, k + 1, nearest, min_distance)
    ELSE NearestScan(block, elements, k + 1, nearest, min_distance)

find_nearest_element(block, elements) ==
    IF elements = <<>> THEN 0 ELSE NearestScan(block, elements, 1, 0, -1)

(* variant of is_within_distance: the maximum distance is exclusive *)
is_within_distance_exclusive(block, element, orphan_max_distance) ==
    IF block.page # element.page THEN FALSE
    ELSE /\ orphan_max_distance >= 0
         /\ calculate_bbox_distance(block.bbox, element.bbox)
               < 4 * orphan_max_distance * orphan_max_distance

(* distance <= orphan_max_distance, on (2 * distance)^2 *)
is_within_distance(block, element, orphan_max_distance) ==
    IF block.page # element.page THEN FALSE
    ELSE /\ orphan_max_distance >= 0
         /\ calculate_bbox_distance(block.bbox, element.bbox)
               <= 4 * orphan_max_distance * orphan_max_distance

(* a "bbox" value is a list object: one that reconcile created, the bbox  *)
(* list of structural element e, or the bbox list of fragment i           *)
FreshRef == [kind |-> "fresh", index |-> -1]

ElementRef(e) == [kind |-> "element", index |-> e]

BlockRef(i) == [kind |-> "block", index |-> i]

(* element.get("bbox", [0, 0, 0, 0]): the element's own list if it has one *)
FlaggedBBoxRef(element, e) ==
    IF HasKey(element, "bbox") THEN ElementRef(e) ELSE FreshRef

(* variant of RebindBBox: the list the key holds is overwritten in place *)
RebindBBoxInPlace(inputs, ref, bbox) ==
    IF ref.kind = "element"
    THEN [inputs EXCEPT !.nougat[ref.index + 1].bbox = bbox]
    ELSE IF ref.kind = "block"
    THEN [inputs EXCEPT !.pymupdf[ref.index + 1].bbox = bbox]
    ELSE inputs

(* the two input lists after nearest_element["bbox"] = merge_bboxes(...): *)
(* the key is bound to the new list, the list it held stays as it was     *)
RebindBBox(inputs, ref, bbox) == inputs

(* variant of AbsorbBlock: the bbox is not recomputed *)
AbsorbBlockStaleBox(element, block, i) ==
    [element EXCEPT !.text = @ \o <<" ">> \o block.text,
                    !.blocks = Append(@, i)]

(* variant of AbsorbBlock: the absorbing element is rated 1.0 like an     *)
(* orphan element                                                         *)
AbsorbBlockRerated(element, block, i) ==
    [element EXCEPT !.text = @ \o <<" ">> \o block.text,
                    !.blocks = Append(@, i),
                    !.bbox = merge_bboxes(<<@, block.bbox>>),
                    !.confidence = 100]

(* the three statements of the append branch, on an element with "blocks" *)
AbsorbBlock(element, block, i) ==
    [element EXCEPT !.text = @ \o <<" ">> \o block.text,
                    !.blocks = Append(@, i),
                    !.bbox = merge_bboxes(<<@, block.bbox>>)]

(* the first statement alone: the second raises KeyError without "blocks" *)
AbsorbTextOnly(element, block) ==
    [element EXCEPT !.text = @ \o <<" ">> \o block.text]

(* the dict of a standalone orphan *)
OrphanElement(block, i) ==
    [type |-> "orphan",
     text |-> block.text,
     blocks |-> <<i>>,
     bbox |-> block.bbox,
     page |-> block.page,
     confidence |-> 100]

(* the guard of the loop body: i not in used_blocks and block["text"].strip() *)
IsOrphanBlock(i, block, used_blocks) ==
    i \notin used_blocks /\ StripNonEmpty(block.text)

(* variant of AbsorbTarget: the nearest element absorbs at any distance *)
AbsorbTargetAnyDistance(block, elements, orphan_max_distance) ==
    IF elements # <<>> THEN find_nearest_element(block, elements) ELSE 0

(* the element the block is appended to, 0 when a new orphan is created *)
AbsorbTarget(block, elements, orphan_max_distance) ==
    IF elements # <<>>
    THEN LET nearest == find_nearest_element(block, elements)
         IN IF nearest # 0
               /\ is_within_distance(block, elements[nearest],
                                     orphan_max_distance)
            THEN nearest
            ELSE 0
    ELSE 0

----------------------------------------------------------------------------
(* SuperGrobidParser (core.py) *)

(* a dict without keys *)
EmptyDict == <<>>

(* ReconciliationEngine.__init__: the attributes read from the            *)
(* configuration, with their defaults                                     *)
ReconciliationEngine(cfg) ==
    LET recon_config == Get(cfg, "reconciliation", EmptyDict)
        similarity == Get(recon_config, "similarity", EmptyDict)
        hallucination == Get(recon_config, "hallucination", EmptyDict)
        orphan == Get(recon_config, "orphan", EmptyDict)
    IN [similarity_method |-> Get(similarity, "method", "levenshtein"),
        similarity_threshold |-> Get(similarity, "threshold", 80),
        hallucination_threshold |->
            Get(hallucination, "detection_threshold", 60),
        discard_threshold |-> Get(hallucination, "discard_threshold", 40),
        orphan_max_distance |-> Get(orphan, "max_distance", 100)]

(* is_pdf_file: the suffix of the path, lower-cased, is ".pdf" *)
is_pdf_file(pdf_path) == pdf_path.suffix = ".pdf"

(* Path(pdf_path).exists() *)
PathExists(pdf_path) == pdf_path.exists

(* variant of dict_update: keys the dict already has keep their value *)
dict_setdefault(d, new) ==
    [k \in DOMAIN d \cup DOMAIN new |->
        IF k \in DOMAIN d THEN d[k] ELSE new[k]]

(* dict.update(new): every key of new is bound to new's value *)
dict_update(d, new) ==
    [k \in DOMAIN d \cup DOMAIN new |->
        IF k \in DOMAIN new THEN new[k] ELSE d[k]]

(* get_config: a copy of the dict, with the same keys and values *)
get_config(cfg) == [k \in DOMAIN cfg |-> cfg[k]]

(* ReconciliationEngine.get_statistics, the counts *)
get_statistics(elements) ==
    [total_elements |-> Len(elements),
     orphan_elements |->
        Cardinality({k \in 1..Len(elements) : elements[k].type = "orphan"}),
     hallucination_warnings |->
        Cardinality({k \in 1..Len(elements) :
                        Get(elements[k], "hallucination_warning", FALSE)})]

(* the dict parse returns from its try block *)
SuccessResult(pdf_path, pymupdf, nougat, reconciled_output) ==
    [success |-> TRUE,
     input_file |-> pdf_path.name,
     statistics |-> [pymupdf_blocks |-> Len(pymupdf),
                     nougat_elements |-> Len(nougat),
                     reconciled_elements |-> Len(reconciled_output),
                     reconciliation |-> get_statistics(reconciled_output)]]

(* the dict parse returns from its except block *)
FailureResult(pdf_path, error) ==
    [success |-> FALSE, error |-> error, input_file |-> pdf_path.name]

----------------------------------------------------------------------------
(* The explored inputs *)

T_The == <<"T", "h", "e">>

T_cat == <<"c", "a", "t">>

T_sat == <<"s", "a", "t">>

T_dot == <<".">>

T_blank == <<" ">>

T_a == <<"a">>

T_ca == <<"c", "a">>

T_xyz == <<"x", "y", "z">>

T_Fig == <<"F", "i", "g">>

T_the_cat == <<"t", "h", "e", " ", "c", "a", "t">>

T_The_cat_sat == Join(<<T_The, T_cat, T_sat>>)

(* all sequences over S of length lo..hi *)
SeqsOf(S, lo, hi) == UNION {[1..n -> S] : n \in lo..hi}

(* the box of the i-th fragment of a one-line page: centers 20 apart *)
SlotBox(i) == <<20 * i, 0, 20 * i + 10, 10>>

OnLine(texts) ==
    [i \in 1..Len(texts) |->
        [text |-> texts[i], bbox |-> SlotBox(i - 1), page |-> 1]]

(* the configuration that names all five options of the engine *)
FullConfig(method, threshold, detection_threshold, max_distance) ==
    [reconciliation |->
        [similarity |-> [method |-> method, threshold |-> threshold],
         hallucination |-> [detection_threshold |-> detection_threshold,
                            discard_threshold |-> 40],
         orphan |-> [max_distance |-> max_distance]]]

Engine(method, threshold, detection_threshold, max_distance) ==
    ReconciliationEngine(
        FullConfig(method, threshold, detection_threshold, max_distance))

(* documents that vary texts, kinds and thresholds on one line of page 1 *)
TextElements ==
    {[type |-> "paragraph", text |-> T_the_cat],
     [type |-> "header", text |-> T_The, bbox |-> <<0, 0, 10, 10>>, page |-> 1],
     [type |-> "figure", text |-> T_Fig, page |-> 1],
     [type |-> "table", text |-> <<>>, confidence |-> 90]}

TextEngines ==
    {Engine("levenshtein", 80, 60, 30),
     Engine("levenshtein", 0, 0, 30),
     Engine("jaccard", 80, 60, 30)}

TextDocs ==
    {[nougat |-> e, pymupdf |-> OnLine(t), engine |-> g] :
        e \in SeqsOf(TextElements, 0, MaxElems),
        t \in SeqsOf({T_The, T_cat}, 0, MaxFrags),
        g \in TextEngines}

(* documents that vary the geometry: boxes whose centers lie at distance *)
(* 0, 50 or 100 from the center (100, 100) of B_0 and from each other     *)
B_0 == <<90, 95, 110, 105>>

B_right == <<90, 50, 210, 150>>

B_left == <<40, 95, 60, 105>>

GeoFragments ==
    {[text |-> T_cat, bbox |-> b, page |-> 2] : b \in {B_0, B_right, B_left}}
    \cup {[text |-> T_cat, bbox |-> B_0, page |-> 3],
          [text |-> T_blank, bbox |-> B_0, page |-> 2]}

GeoElements ==
    {[type |-> "paragraph", text |-> T_cat],
     [type |-> "list", text |-> T_ca],
     [type |-> "paragraph", text |-> T_the_cat, bbox |-> B_0, page |-> 2],
     [type |-> "header", text |-> T_xyz],
     [type |-> "paragraph", text |-> <<>>],
     [type |-> "figure", text |-> T_Fig, page |-> 2],
     [type |-> "table", text |-> <<>>]}

GeoDocs ==
    {[nougat |-> <<e>>, pymupdf |-> f,
      engine |-> Engine("levenshtein", 80, 60, d)] :
        e \in GeoElements,
        f \in SeqsOf(GeoFragments, 1, MaxFrags),
        d \in {50, 100}}

(* Scenario A of the specification *)
ScenarioADocs ==
    {[nougat |-> <<[type |-> "paragraph", text |-> T_The_cat_sat]>>,
      pymupdf |-> OnLine(<<T_The, T_cat, T_sat, T_dot>>),
      engine |-> Engine("levenshtein", 80, 60, d)] : d \in {30, 100}}

(* long runs of equal fragments, for the window sizes near 10 *)
RepeatA(k) == Join([i \in 1..k |-> T_a])

LongDocs ==
    {[nougat |-> <<[type |-> "paragraph", text |-> RepeatA(k)]>>,
      pymupdf |-> OnLine([i \in 1..n |-> T_a]),
      engine |-> Engine("levenshtein", 80, 60, 30)] :
        k \in {9, 10}, n \in 9..MaxLongFrags}

(* a figure / table before and after a paragraph of four fragments out of *)
(* five, for the neighbour windows of three fragments                     *)
T_The_cat_sat_dot == Join(<<T_The, T_cat, T_sat, T_dot>>)

WindowDocs ==
    {[nougat |-> e,
      pymupdf |-> OnLine(<<T_The, T_cat, T_sat, T_dot, T_The>>),
      engine |-> Engine("levenshtein", 80, 60, 30)] :
        e \in {<<[type |-> k, text |-> T_Fig],
                 [type |-> "paragraph", text |-> T_The_cat_sat_dot]>> :
                   k \in NonTextTypes}
          \cup {<<[type |-> "paragraph", text |-> T_The_cat_sat_dot],
                   [type |-> k, text |-> T_Fig, page |-> 2,
                    confidence |-> 70]>> : k \in NonTextTypes}}

(* a header / paragraph / list without text before a paragraph, under     *)
(* every similarity method                                                *)
EmptyTextDocs ==
    {[nougat |-> <<[type |-> k, text |-> <<>>],
                   [type |-> "paragraph", text |-> T_the_cat]>>,
      pymupdf |-> OnLine(<<T_The, T_cat>>),
      engine |-> Engine(m, t[1], t[2], 30)] :
        k \in TextTypes,
        m \in SupportedMethods \cup {"jaccard"},
        t \in {<<80, 60>>, <<0, 0>>}}

(* the calls of calculate_similarity on its own *)
SimilarityTexts ==
    {<<>>, T_blank, T_a, T_The, T_cat, T_ca, T_xyz, T_the_cat,
     T_The_cat_sat, Join(<<T_sat, T_cat>>)}

SimilarityMethods == SupportedMethods \cup {"jaccard", ""}

SimilarityCalls ==
    {[fn |-> "calculate_similarity", text1 |-> t1, text2 |-> t2,
      method |-> m] :
        t1 \in SimilarityTexts, t2 \in SimilarityTexts,
        m \in SimilarityMethods}

(* the calls of merge_bboxes on its own *)
MaxBoxes == 3

MergeBoxes == {B_0, B_right, B_left, <<0, 0, 0, 0>>, <<-5, 120, 5, 300>>}

MergeCalls ==
    {[fn |-> "merge_bboxes", bboxes |-> b] :
        b \in SeqsOf(MergeBoxes, 0, MaxBoxes)}

(* the paths given to the parser: what the file system and the external   *)
(* extractors answer for each                                             *)
PdfPath(name, suffix, exists, extractors, nougat, texts) ==
    [name |-> name, suffix |-> suffix, exists |-> exists,
     extractors |-> extractors, nougat |-> nougat, pymupdf |-> OnLine(texts)]

Paths ==
    {PdfPath("good.pdf", ".pdf", TRUE, "ok",
             <<[type |-> "paragraph", text |-> T_ca]>>, <<T_cat>>),
     PdfPath("table.pdf", ".pdf", TRUE, "ok",
             <<[type |-> "table", text |-> <<>>]>>, <<T_The>>),
     PdfPath("broken.pdf", ".pdf", TRUE, "throws", <<>>, <<>>),
     PdfPath("missing.pdf", ".pdf", FALSE, "ok", <<>>, <<>>),
     PdfPath("notes.txt", ".txt", TRUE, "ok", <<>>, <<>>)}

MaxPaths == 2

(* the configurations a parser is constructed with *)
ParserConfigs ==
    {FullConfig("levenshtein", 80, 60, 30),
     FullConfig("jaccard", 80, 50, 30)}

(* the arguments of update_config *)
ConfigUpdates ==
    {[reconciliation |-> [similarity |-> [threshold |-> 90]]],
     [reconciliation |->
         [similarity |-> [method |-> "fuzzy", threshold |-> 70]]],
     [output |-> [formats |-> "json"]]}

Documents ==
    TextDocs \cup GeoDocs \cup ScenarioADocs \cup LongDocs \cup WindowDocs
       \cup EmptyTextDocs

----------------------------------------------------------------------------
(* The state machine *)

(* no helper is being called on its own *)
NoCall == [fn |-> "none"]

NoResult == [status |-> "none"]

Idle ==
    [step |-> "none", branch |-> "none", element |-> -1, block |-> -1,
     cursor_before |-> 0, m |-> NoMatch(0), target |-> 0]

(* no helper of utils.py is being called on its own *)
UtilIdle ==
    /\ call = NoCall
    /\ result = NoResult

(* no parser exists *)
ParserIdle ==
    /\ config = EmptyDict
    /\ pdf_paths = <<>>
    /\ results = <<>>
    /\ parser_pc = "none"

(* reconcile is not being called *)
ReconcileIdle ==
    /\ nougat_output = <<>>
    /\ pymupdf_output = <<>>
    /\ pc = "none"
    /\ element_index = 0
    /\ pymupdf_index = 0
    /\ used_pymupdf_blocks = {}
    /\ reconciled = <<>>
    /\ orphan_elements = <<>>
    /\ block_index = 0
    /\ returned = <<>>
    /\ main_pass = <<>>
    /\ last = Idle
    /\ bbox_ref = <<>>

(* reconcile is entered with a document *)
ReconcileInit ==
    \E d \in Documents :
        /\ nougat_output = d.nougat
        /\ pymupdf_output = d.pymupdf
        /\ engine = d.engine
        /\ pc = "main"
        /\ element_index = 0
        /\ pymupdf_index = 0
        /\ used_pymupdf_blocks = {}
        /\ reconciled = <<>>
        /\ orphan_elements = <<>>
        /\ block_index = 0
        /\ returned = <<>>
        /\ main_pass = <<>>
        /\ last = Idle
        /\ bbox_ref = <<>>
        /\ UtilIdle
        /\ ParserIdle

(* a helper of utils.py is called with arguments of its own *)
UtilInit ==
    /\ call \in SimilarityCalls \cup MergeCalls
    /\ result = NoResult
    /\ engine = ReconciliationEngine(EmptyDict)
    /\ ReconcileIdle
    /\ ParserIdle

(* a parser has been constructed from a configuration *)
ParserInit ==
    /\ config \in ParserConfigs
    /\ engine = ReconciliationEngine(config)
    /\ pdf_paths = <<>>
    /\ results = <<>>
    /\ parser_pc = "ready"
    /\ UtilIdle
    /\ ReconcileIdle

Init ==
    \/ ReconcileInit
    \/ UtilInit
    \/ ParserInit

CurrentElement == nougat_output[element_index + 1]

CurrentMatch ==
    find_matching_blocks(CurrentElement.text, pymupdf_output, pymupdf_index,
                         engine.similarity_method)

InMainLoop == pc = "main" /\ element_index < Len(nougat_output)

AtTextElement ==
    /\ InMainLoop
    /\ CurrentElement.type \in TextTypes

TextStep(branch, m) ==
    [step |-> "text", branch |-> branch, element |-> element_index,
     block |-> -1, cursor_before |-> pymupdf_index, m |-> m, target |-> 0]

(* a header / paragraph / list whose matcher call raises ValueError *)
TextRaise ==
    /\ AtTextElement
    /\ MatcherRaises(CurrentElement.text, pymupdf_output, pymupdf_index,
                     engine.similarity_method)
    /\ pc' = "raised"
    /\ last' = TextStep("raise", NoMatch(pymupdf_index))
    /\ UNCHANGED <<util_vars, parser_vars, bbox_ref>>
    /\ UNCHANGED <<nougat_output, pymupdf_output, engine, element_index,
                   pymupdf_index, used_pymupdf_blocks, reconciled,
                   orphan_elements, block_index, returned, main_pass>>

(* a header / paragraph / list accepted with the exact text *)
AcceptExact ==
    /\ AtTextElement
    /\ ~MatcherRaises(CurrentElement.text, pymupdf_output, pymupdf_index,
                      engine.similarity_method)
    /\ LET m == CurrentMatch
       IN /\ TextBranch(m, engine) = "exact"
          /\ reconciled' = Append(reconciled,
                 AcceptedElement(CurrentElement, m, pymupdf_output))
          /\ used_pymupdf_blocks' =
                 MarkUsed(used_pymupdf_blocks, pymupdf_index, m.new_index)
          /\ pymupdf_index' = m.new_index
          /\ last' = TextStep("exact", m)
    /\ bbox_ref' = Append(bbox_ref, FreshRef)
    /\ element_index' = element_index + 1
    /\ UNCHANGED <<util_vars, parser_vars>>
    /\ UNCHANGED <<nougat_output, pymupdf_output, engine, pc,
                   orphan_elements, block_index, returned, main_pass>>

(* a header / paragraph / list kept with a hallucination warning *)
AcceptFlagged ==
    /\ AtTextElement
    /\ ~MatcherRaises(CurrentElement.text, pymupdf_output, pymupdf_index,
                      engine.similarity_method)
    /\ LET m == CurrentMatch
       IN /\ TextBranch(m, engine) = "flagged"
          /\ reconciled' = Append(reconciled, FlaggedElement(CurrentElement, m))
          /\ last' = TextStep("flagged", m)
    /\ bbox_ref' = Append(bbox_ref,
                          FlaggedBBoxRef(CurrentElement, element_index))
    /\ element_index' = element_index + 1
    /\ UNCHANGED <<util_vars, parser_vars>>
    /\ UNCHANGED <<nougat_output, pymupdf_output, engine, pc, pymupdf_index,
                   used_pymupdf_blocks, orphan_elements, block_index,
                   returned, main_pass>>

(* a header / paragraph / list discarded *)
Discard ==
    /\ AtTextElement
    /\ ~MatcherRaises(CurrentElement.text, pymupdf_output, pymupdf_index,
                      engine.similarity_method)
    /\ LET m == CurrentMatch
       IN /\ TextBranch(m, engine) = "discard"
          /\ last' = TextStep("discard", m)
    /\ element_index' = element_index + 1
    /\ UNCHANGED <<util_vars, parser_vars, bbox_ref>>
    /\ UNCHANGED <<nougat_output, pymupdf_output, engine, pc, pymupdf_index,
                   used_pymupdf_blocks, reconciled, orphan_elements,
                   block_index, returned, main_pass>>

(* a figure / table *)
NonTextElement ==
    /\ InMainLoop
    /\ CurrentElement.type \in NonTextTypes
    /\ LET non_text_element ==
               handle_non_text_element(CurrentElement, pymupdf_output,
                                       pymupdf_index)
       IN /\ reconciled' = reconciled \o non_text_element
          /\ bbox_ref' = bbox_ref \o [k \in 1..Len(non_text_element) |->
                                         FreshRef]
          /\ last' = [step |-> "nontext",
                      branch |-> IF non_text_element = <<>> THEN "skip"
                                 ELSE "emit",
                      element |-> element_index, block |-> -1,
                      cursor_before |-> pymupdf_index,
                      m |-> NoMatch(pymupdf_index), target |-> 0]
    /\ element_index' = element_index + 1
    /\ UNCHANGED <<util_vars, parser_vars>>
    /\ UNCHANGED <<nougat_output, pymupdf_output, engine, pc, pymupdf_index,
                   used_pymupdf_blocks, orphan_elements, block_index,
                   returned, main_pass>>

(* the main loop is over: _handle_orphan_blocks is entered *)
StartOrphans ==
    /\ pc = "main"
    /\ element_index = Len(nougat_output)
    /\ pc' = "orphans"
    /\ main_pass' = reconciled
    /\ last' = [Idle EXCEPT !.step = "start_orphans",
                            !.cursor_before = pymupdf_index]
    /\ UNCHANGED <<util_vars, parser_vars, bbox_ref>>
    /\ UNCHANGED <<nougat_output, pymupdf_output, engine, element_index,
                   pymupdf_index, used_pymupdf_blocks, reconciled,
                   orphan_elements, block_index, returned>>

InOrphanLoop == pc = "orphans" /\ block_index < Len(pymupdf_output)

CurrentBlock == pymupdf_output[block_index + 1]

OrphanStep(branch, target) ==
    [step |-> "orphan", branch |-> branch, element |-> -1,
     block |-> block_index, cursor_before |-> pymupdf_index,
     m |-> NoMatch(pymupdf_index), target |-> target]

(* a consumed or blank fragment: the loop body does nothing *)
OrphanSkip ==
    /\ InOrphanLoop
    /\ ~IsOrphanBlock(block_index, CurrentBlock, used_pymupdf_blocks)
    /\ block_index' = block_index + 1
    /\ last' = OrphanStep("skip", 0)
    /\ UNCHANGED <<util_vars, parser_vars, bbox_ref>>
    /\ UNCHANGED <<nougat_output, pymupdf_output, engine, pc, element_index,
                   pymupdf_index, used_pymupdf_blocks, reconciled,
                   orphan_elements, returned, main_pass>>

(* an orphan appended to the nearest reconciled element *)
OrphanAbsorb ==
    /\ InOrphanLoop
    /\ IsOrphanBlock(block_index, CurrentBlock, used_pymupdf_blocks)
    /\ LET nearest == AbsorbTarget(CurrentBlock, reconciled,
                                   engine.orphan_max_distance)
       IN /\ nearest # 0
          /\ HasKey(reconciled[nearest], "blocks")
          /\ reconciled' = [reconciled EXCEPT ![nearest] =
                               AbsorbBlock(@, CurrentBlock, block_index)]
          /\ LET inputs == RebindBBox(
                              [nougat |-> nougat_output,
                               pymupdf |-> pymupdf_output],
                              bbox_ref[nearest],
                              merge_bboxes(<<reconciled[nearest].bbox,
                                             CurrentBlock.bbox>>))
             IN /\ nougat_output' = inputs.nougat
                /\ pymupdf_output' = inputs.pymupdf
          /\ bbox_ref' = [bbox_ref EXCEPT ![nearest] = FreshRef]
          /\ last' = OrphanStep("absorb", nearest)
    /\ block_index' = block_index + 1
    /\ UNCHANGED <<util_vars, parser_vars>>
    /\ UNCHANGED <<engine, pc, element_index,
                   pymupdf_index, used_pymupdf_blocks, orphan_elements,
                   returned, main_pass>>

(* the nearest element has no "blocks" key: KeyError after the text update *)
OrphanAbsorbRaise ==
    /\ InOrphanLoop
    /\ IsOrphanBlock(block_index, CurrentBlock, used_pymupdf_blocks)
    /\ LET nearest == AbsorbTarget(CurrentBlock, reconciled,
                                   engine.orphan_max_distance)
       IN /\ nearest # 0
          /\ ~HasKey(reconciled[nearest], "blocks")
          /\ reconciled' = [reconciled EXCEPT ![nearest] =
                               AbsorbTextOnly(@, CurrentBlock)]
          /\ last' = OrphanStep("raise", nearest)
    /\ pc' = "raised"
    /\ UNCHANGED <<util_vars, parser_vars, bbox_ref>>
    /\ UNCHANGED <<nougat_output, pymupdf_output, engine, element_index,
                   pymupdf_index, used_pymupdf_blocks, orphan_elements,
                   block_index, returned, main_pass>>

(* an orphan emitted as an element of its own *)
OrphanCreate ==
    /\ InOrphanLoop
    /\ IsOrphanBlock(block_index, CurrentBlock, used_pymupdf_blocks)
    /\ AbsorbTarget(CurrentBlock, reconciled, engine.orphan_max_distance) = 0
    /\ orphan_elements' =
           Append(orphan_elements, OrphanElement(CurrentBlock, block_index))
    /\ block_index' = block_index + 1
    /\ last' = OrphanStep("orphan", 0)
    /\ UNCHANGED <<util_vars, parser_vars, bbox_ref>>
    /\ UNCHANGED <<nougat_output, pymupdf_output, engine, pc, element_index,
                   pymupdf_index, used_pymupdf_blocks, reconciled, returned,
                   main_pass>>

(* reconciled.extend(orphan_elements); return reconciled *)
Return ==
    /\ pc = "orphans"
    /\ block_index = Len(pymupdf_output)
    /\ reconciled' = reconciled \o orphan_elements
    /\ returned' = reconciled'
    /\ bbox_ref' = bbox_ref \o [j \in 1..Len(orphan_elements) |->
                                  BlockRef(orphan_elements[j].blocks[1])]
    /\ pc' = "done"
    /\ last' = [Idle EXCEPT !.step = "return",
                            !.cursor_before = pymupdf_index]
    /\ UNCHANGED <<util_vars, parser_vars>>
    /\ UNCHANGED <<nougat_output, pymupdf_output, engine, element_index,
                   pymupdf_index, used_pymupdf_blocks, orphan_elements,
                   block_index, main_pass>>

(* calculate_similarity called on its own *)
CallSimilarity ==
    /\ call.fn = "calculate_similarity"
    /\ result = NoResult
    /\ result' =
          IF SimilarityRaises(call.text1, call.text2, call.method)
          THEN [status |-> "raised", error |-> "ValueError"]
          ELSE [status |-> "returned",
                value |-> calculate_similarity(call.text1, call.text2,
                                               call.method)]
    /\ UNCHANGED <<reconcile_vars, engine, call, parser_vars>>

(* merge_bboxes called on its own *)
CallMergeBBoxes ==
    /\ call.fn = "merge_bboxes"
    /\ result = NoResult
    /\ result' = [status |-> "returned", value |-> merge_bboxes(call.bboxes)]
    /\ UNCHANGED <<reconcile_vars, engine, call, parser_vars>>

(* parse(pdf_path) is called *)
CallParse ==
    /\ parser_pc = "ready"
    /\ \E p \in Paths : call' = [fn |-> "parse", pdf_path |-> p]
    /\ result' = NoResult
    /\ pdf_paths' = <<>>
    /\ results' = <<>>
    /\ parser_pc' = "parse"
    /\ UNCHANGED <<reconcile_vars, engine, config>>

(* parse_batch(pdf_paths) is called *)
CallParseBatch ==
    /\ parser_pc = "ready"
    /\ call' = [fn |-> "parse_batch"]
    /\ result' = NoResult
    /\ pdf_paths' \in SeqsOf(Paths, 0, MaxPaths)
    /\ results' = <<>>
    /\ parser_pc' = "loop"
    /\ UNCHANGED <<reconcile_vars, engine, config>>

(* the head of the for loop of parse_batch: parse is called for the next  *)
(* path                                                                   *)
BatchNext ==
    /\ parser_pc = "loop"
    /\ Len(results) < Len(pdf_paths)
    /\ parser_pc' = "parse"
    /\ UNCHANGED <<reconcile_vars, engine, util_vars, config, pdf_paths,
                   results>>

(* the for loop of parse_batch is over: the results are returned *)
BatchReturn ==
    /\ parser_pc = "loop"
    /\ Len(results) = Len(pdf_paths)
    /\ result' = [status |-> "returned", value |-> results]
    /\ parser_pc' = "ready"
    /\ UNCHANGED <<reconcile_vars, engine, call, config, pdf_paths, results>>

(* the path parse is working on *)
CurrentPath ==
    IF call.fn = "parse" THEN call.pdf_path ELSE pdf_paths[Len(results) + 1]

(* parse returns the dict r: to the caller, or to the loop of parse_batch *)
ParseReturns(r) ==
    IF call.fn = "parse"
    THEN /\ result' = [status |-> "returned", value |-> r]
         /\ parser_pc' = "ready"
         /\ UNCHANGED results
    ELSE /\ results' = Append(results, r)
         /\ parser_pc' = "loop"
         /\ UNCHANGED result

(* the validation of parse raises: nothing catches it, neither in parse   *)
(* nor in parse_batch                                                     *)
ParseInvalid ==
    /\ parser_pc = "parse"
    /\ ~is_pdf_file(CurrentPath) \/ ~PathExists(CurrentPath)
    /\ result' = [status |-> "raised",
                  error |-> IF ~is_pdf_file(CurrentPath) THEN "ValueError"
                            ELSE "FileNotFoundError"]
    /\ parser_pc' = "ready"
    /\ UNCHANGED <<reconcile_vars, engine, call, config, pdf_paths, results>>

(* an extractor raises inside the try block *)
ParseExtractorFails ==
    /\ parser_pc = "parse"
    /\ is_pdf_file(CurrentPath) /\ PathExists(CurrentPath)
    /\ CurrentPath.extractors = "throws"
    /\ ParseReturns(FailureResult(CurrentPath, "extractor"))
    /\ UNCHANGED <<reconcile_vars, engine, call, config, pdf_paths>>

(* the extractors answered: reconcile is entered with their outputs *)
ParseReconcile ==
    /\ parser_pc = "parse"
    /\ is_pdf_file(CurrentPath) /\ PathExists(CurrentPath)
    /\ CurrentPath.extractors = "ok"
    /\ nougat_output' = CurrentPath.nougat
    /\ pymupdf_output' = CurrentPath.pymupdf
    /\ pc' = "main"
    /\ parser_pc' = "reconcile"
    /\ UNCHANGED <<element_index, pymupdf_index, used_pymupdf_blocks,
                   reconciled, orphan_elements, block_index, returned,
                   main_pass, last, bbox_ref>>
    /\ UNCHANGED <<engine, util_vars, config, pdf_paths, results>>

(* the locals of reconcile are gone *)
ReconcileLeft ==
    /\ nougat_output' = <<>>
    /\ pymupdf_output' = <<>>
    /\ pc' = "none"
    /\ element_index' = 0
    /\ pymupdf_index' = 0
    /\ used_pymupdf_blocks' = {}
    /\ reconciled' = <<>>
    /\ orphan_elements' = <<>>
    /\ block_index' = 0
    /\ returned' = <<>>
    /\ main_pass' = <<>>
    /\ last' = Idle
    /\ bbox_ref' = <<>>

(* reconcile returned: parse returns its results *)
ParseSuccess ==
    /\ parser_pc = "reconcile"
    /\ pc = "done"
    /\ ParseReturns(SuccessResult(CurrentPath, pymupdf_output, nougat_output,
                                  returned))
    /\ ReconcileLeft
    /\ UNCHANGED <<engine, call, config, pdf_paths>>

(* reconcile raised: the except block of parse returns the failure *)
ParseReconcileFails ==
    /\ parser_pc = "reconcile"
    /\ pc = "raised"
    /\ ParseReturns(FailureResult(CurrentPath, "reconcile"))
    /\ ReconcileLeft
    /\ UNCHANGED <<engine, call, config, pdf_paths>>

(* update_config(new_config) *)
UpdateConfig ==
    /\ parser_pc = "ready"
    /\ \E new_config \in ConfigUpdates :
          /\ config' = dict_update(config, new_config)
          /\ call' = [fn |-> "update_config", new_config |-> new_config]
    /\ engine' = ReconciliationEngine(config')
    /\ result' = [status |-> "returned", value |-> "None"]
    /\ UNCHANGED <<reconcile_vars, pdf_paths, results, parser_pc>>

Next ==
    \/ TextRaise
    \/ AcceptExact
    \/ AcceptFlagged
    \/ Discard
    \/ NonTextElement
    \/ StartOrphans
    \/ OrphanSkip
    \/ OrphanAbsorb
    \/ OrphanAbsorbRaise
    \/ OrphanCreate
    \/ Return
    \/ CallSimilarity
    \/ CallMergeBBoxes
    \/ CallParse
    \/ CallParseBatch
    \/ BatchNext
    \/ BatchReturn
    \/ ParseInvalid
    \/ ParseExtractorFails
    \/ ParseReconcile
    \/ ParseSuccess
    \/ ParseReconcileFails
    \/ UpdateConfig

Spec == Init /\ [][Next]_vars

----------------------------------------------------------------------------
(* Vocabulary of the properties *)

NumFrags == Len(pymupdf_output)

(* every element built so far, in output order *)
Output == IF pc = "done" THEN returned ELSE reconciled \o orphan_elements

(* how often fragment i occurs in the "blocks" lists of the elements *)
Occurrences(elements, i) ==
    Cardinality({x \in (1..Len(elements)) \X (1..NumFrags) :
                    /\ HasKey(elements[x[1]], "blocks")
                    /\ x[2] <= Len(elements[x[1]].blocks)
                    /\ elements[x[1]].blocks[x[2]] = i})

Fragment(i) == pymupdf_output[i + 1]

Unconsumed(i) ==
    i \notin used_pymupdf_blocks /\ \E c \in Range(Fragment(i).text) : c # " "

(* the element the latest main-pass step appended *)
NewElement == reconciled[Len(reconciled)]

LastElement == nougat_output[last.element + 1]

Similarity == last.m.similarity

MatcherReturned ==
    last.step = "text" /\ last.branch \in {"exact", "flagged", "discard"}

(* a call of reconcile is under way: its next step is one of its own *)
InReconcile == pc \in {"main", "orphans"}

----------------------------------------------------------------------------
(* C1: every fragment index occurs at most once in the source-fragment    *)
(* lists of all elements taken together, and once reconcile has returned, *)
(* every unconsumed non-blank fragment occurs exactly once.               *)
C1_FragmentUniqueness ==
    /\ \A i \in 0..(NumFrags - 1) : Occurrences(Output, i) <= 1
    /\ pc = "done" =>
         \A i \in 0..(NumFrags - 1) :
            Unconsumed(i) => Occurrences(returned, i) = 1

(* a returned list with an accepted run, an absorbed orphan and a         *)
(* standalone orphan                                                      *)
C1_Witness ==
    /\ pc = "done"
    /\ \E k \in 1..Len(returned) :
          /\ returned[k].type \in TextTypes
          /\ Len(returned[k].blocks) >= 2
          /\ returned[k].blocks[1] \in used_pymupdf_blocks
          /\ returned[k].blocks[2] \notin used_pymupdf_blocks
    /\ \E k \in 1..Len(returned) : returned[k].type = "orphan"

C3_CursorMonotonic ==
    [][InReconcile =>
          /\ pymupdf_index' >= pymupdf_index
          /\ pymupdf_index' \in 0..Len(pymupdf_output')]_vars

(* the cursor advanced for two elements in a row *)
C3_Witness ==
    /\ last.step = "text"
    /\ last.cursor_before > 0
    /\ pymupdf_index > last.cursor_before

(* C4: an element accepted as exact keeps the structural kind and takes   *)
(* text, source fragments, bbox and page from the matched run, its        *)
(* confidence is the similarity and it carries no hallucination flag.     *)
C4_AcceptExactFields ==
    (last.step = "text" /\ last.branch = "exact") =>
       LET run == last.m.matched_blocks
           boxes == {Fragment(run[k]).bbox : k \in 1..Len(run)}
       IN /\ Len(run) >= 1
          /\ \A k \in 1..Len(run) : run[k] = run[1] + k - 1
          /\ NewElement.type = LastElement.type
          /\ NewElement.text =
                Join([k \in 1..Len(run) |-> Fragment(run[k]).text])
          /\ NewElement.blocks = run
          /\ \A b \in boxes :
                /\ NewElement.bbox[1] <= b[1] /\ NewElement.bbox[2] <= b[2]
                /\ NewElement.bbox[3] >= b[3] /\ NewElement.bbox[4] >= b[4]
          /\ \A c \in 1..4 : \E b \in boxes : NewElement.bbox[c] = b[c]
          /\ NewElement.page = Fragment(run[1]).page
          /\ NewElement.confidence = Similarity
          /\ ~HasKey(NewElement, "hallucination_warning")

(* an exact element of two fragments whose text differs from the          *)
(* structural element's                                                   *)
C4_Witness ==
    /\ last.step = "text"
    /\ last.branch = "exact"
    /\ Len(last.m.matched_blocks) = 2
    /\ NewElement.text # LastElement.text

(* C5 as stated: the matcher scores every window of size 1 through        *)
(* min(10, n - startIndex) at every start from startIndex to n - size.    *)
C5_AllWindowSizes ==
    MatcherReturned =>
       last.m.visited =
          {x \in (1..10) \X (0..NumFrags) :
              /\ x[1] <= Min(10, NumFrags - last.cursor_before)
              /\ x[2] >= last.cursor_before
              /\ x[2] <= NumFrags - x[1]}

(* the input of Scenario A *)
ScenarioA ==
    /\ nougat_output = <<[type |-> "paragraph", text |-> T_The_cat_sat]>>
    /\ [i \in 1..NumFrags |-> pymupdf_output[i].text]
          = <<T_The, T_cat, T_sat, T_dot>>
    /\ engine.similarity_method = "levenshtein"
    /\ engine.similarity_threshold = 80

(* C6 as stated: in Scenario A the element is accepted with all four      *)
(* fragments, text "The cat sat ." and the cursor at 4.                   *)
C6_Original ==
    (ScenarioA /\ last.step = "text") =>
       /\ last.branch = "exact"
       /\ last.m.matched_blocks = <<0, 1, 2, 3>>
       /\ NewElement.text = Join(<<T_The, T_cat, T_sat, T_dot>>)
       /\ pymupdf_index = 4

(* C6 amended: in Scenario A the element is accepted at similarity 1.0    *)
(* with the first three fragments, text "The cat sat" and the cursor at   *)
(* 3; the fragment "." is left unconsumed.                                *)
C6_ScenarioA ==
    (ScenarioA /\ last.step = "text") =>
       /\ last.branch = "exact"
       /\ Similarity = 100
       /\ last.m.matched_blocks = <<0, 1, 2>>
       /\ NewElement.text = T_The_cat_sat
       /\ NewElement.blocks = <<0, 1, 2>>
       /\ pymupdf_index = 3
       /\ used_pymupdf_blocks = {0, 1, 2}

(* Scenario A right after its paragraph was processed *)
C6_Witness ==
    /\ ScenarioA
    /\ last.step = "text"
    /\ last.branch = "exact"
    /\ Len(reconciled) = 1

(* element k is the nearest element on the page of the current block:     *)
(* minimal center distance, the first one among equals                    *)
NearestOnPage(k) ==
    /\ k \in 1..Len(reconciled)
    /\ reconciled[k].page = CurrentBlock.page
    /\ \A j \in 1..Len(reconciled) :
          reconciled[j].page = CurrentBlock.page =>
             /\ calculate_bbox_distance(CurrentBlock.bbox, reconciled[j].bbox)
                  >= calculate_bbox_distance(CurrentBlock.bbox,
                                             reconciled[k].bbox)
             /\ j < k =>
                  calculate_bbox_distance(CurrentBlock.bbox, reconciled[j].bbox)
                     > calculate_bbox_distance(CurrentBlock.bbox,
                                               reconciled[k].bbox)

WithinMaxDistance(k) ==
    calculate_bbox_distance(CurrentBlock.bbox, reconciled[k].bbox)
       <= 4 * engine.orphan_max_distance * engine.orphan_max_distance

AtOrphanBlock ==
    /\ InOrphanLoop
    /\ Unconsumed(block_index)

(* C7 as stated: when the nearest same-page element is within the         *)
(* distance, absorption completes without raising, whatever the element's *)
(* kind, and extends its text, source fragments and bbox.                 *)
C7_AbsorbCompletes ==
    [][\A k \in 1..Len(reconciled) :
          (AtOrphanBlock /\ NearestOnPage(k) /\ WithinMaxDistance(k)) =>
             /\ pc' = pc
             /\ HasKey(reconciled[k], "blocks")
             /\ HasKey(reconciled'[k], "blocks")
             /\ reconciled'[k].text =
                   reconciled[k].text \o <<" ">> \o CurrentBlock.text
             /\ reconciled'[k].blocks =
                   Append(reconciled[k].blocks, block_index)
             /\ reconciled'[k].bbox =
                   <<Min(reconciled[k].bbox[1], CurrentBlock.bbox[1]),
                     Min(reconciled[k].bbox[2], CurrentBlock.bbox[2]),
                     Max(reconciled[k].bbox[3], CurrentBlock.bbox[3]),
                     Max(reconciled[k].bbox[4], CurrentBlock.bbox[4])>>]_vars

(* the three cases in which no element can absorb the current block *)
NoAbsorptionTarget ==
    \/ reconciled = <<>>
    \/ \A k \in 1..Len(reconciled) : reconciled[k].page # CurrentBlock.page
    \/ \E k \in 1..Len(reconciled) :
          NearestOnPage(k) /\ ~WithinMaxDistance(k)

(* C8: an unconsumed non-blank fragment becomes an element of kind orphan *)
(* (confidence 1.0, its own fragment, bbox and page) exactly when the     *)
(* main pass emitted nothing, no element is on its page, or the nearest   *)
(* same-page element is farther than orphanMaxDistance; an element on     *)
(* another page is never changed; the orphans end the returned list.      *)
C8_OrphanDecision ==
    /\ [](pc = "done" =>
            \A j \in 1..Len(orphan_elements) :
               /\ Len(returned) >= Len(orphan_elements)
               /\ returned[Len(returned) - Len(orphan_elements) + j]
                     = orphan_elements[j])
    /\ [][AtOrphanBlock =>
            LET created ==
                    orphan_elements' =
                       Append(orphan_elements,
                              [type |-> "orphan",
                               text |-> CurrentBlock.text,
                               blocks |-> <<block_index>>,
                               bbox |-> CurrentBlock.bbox,
                               page |-> CurrentBlock.page,
                               confidence |-> 100])
            IN /\ created <=> NoAbsorptionTarget
               /\ created => reconciled' = reconciled
               /\ ~created => orphan_elements' = orphan_elements
               /\ Len(reconciled') = Len(reconciled)
               /\ \A k \in 1..Len(reconciled) :
                     reconciled'[k] # reconciled[k] =>
                        reconciled[k].page = CurrentBlock.page]_vars

(* Scenario D: an orphan created although an element on another page has  *)
(* the very same box                                                      *)
C8_Witness ==
    /\ last.step = "orphan"
    /\ last.branch = "orphan"
    /\ \E k \in 1..Len(reconciled) :
          /\ reconciled[k].page # Fragment(last.block).page
          /\ reconciled[k].bbox = Fragment(last.block).bbox
    /\ orphan_elements[Len(orphan_elements)].blocks = <<last.block>>

(* twice the center of a box *)
Center2(bbox) == <<bbox[1] + bbox[3], bbox[2] + bbox[4]>>

(* Scenario C: element k of the main pass is the one element on page 2, a *)
(* paragraph; j1 < j2 are the unconsumed non-blank fragments of page 2,   *)
(* each at center distance 50 from it; orphanMaxDistance is 100           *)
ScenarioC(k, j1, j2) ==
    /\ pc \in {"orphans", "done", "raised"}
    /\ engine.orphan_max_distance = 100
    /\ k \in 1..Len(main_pass)
    /\ main_pass[k].type = "paragraph"
    /\ main_pass[k].page = 2
    /\ \A k2 \in 1..Len(main_pass) : main_pass[k2].page = 2 => k2 = k
    /\ j1 < j2
    /\ \A j \in 0..(NumFrags - 1) :
          (Unconsumed(j) /\ Fragment(j).page = 2) <=> j \in {j1, j2}
    /\ \A j \in {j1, j2} :
          calculate_bbox_distance(Fragment(j).bbox, main_pass[k].bbox)
             = 4 * 50 * 50

(* C9: in Scenario C, once the orphan loop has passed both fragments, the *)
(* element has absorbed the first and then the second (text and source    *)
(* fragments grow in that order) and neither became an orphan element.    *)
C9_ScenarioC ==
    \A k \in 1..Len(main_pass) :
       \A j1, j2 \in 0..(NumFrags - 1) :
          (ScenarioC(k, j1, j2) /\ block_index > j2) =>
             /\ reconciled[k].blocks = main_pass[k].blocks \o <<j1, j2>>
             /\ reconciled[k].text =
                   main_pass[k].text \o <<" ">> \o Fragment(j1).text
                                     \o <<" ">> \o Fragment(j2).text
             /\ \A o \in 1..Len(orphan_elements) :
                   orphan_elements[o].blocks \notin {<<j1>>, <<j2>>}

(* Scenario C returned, the center of the element having moved *)
C9_Witness ==
    /\ pc = "done"
    /\ \E k \in 1..Len(main_pass) :
          \E j1, j2 \in 0..(NumFrags - 1) :
             /\ ScenarioC(k, j1, j2)
             /\ Center2(returned[k].bbox) # Center2(main_pass[k].bbox)

(* C10: an element accepted but flagged carries the structural element's  *)
(* own text, no source fragments, its own bbox and page (all-zero box and *)
(* page 1 when absent), the similarity as confidence and the flag; no     *)
(* other output element carries the flag.                                 *)
C10_FlaggedFields ==
    /\ (last.step = "text" /\ last.branch = "flagged") =>
          /\ NewElement.type = LastElement.type
          /\ NewElement.text = LastElement.text
          /\ NewElement.blocks = <<>>
          /\ NewElement.bbox = IF HasKey(LastElement, "bbox")
                               THEN LastElement.bbox ELSE <<0, 0, 0, 0>>
          /\ NewElement.page = IF HasKey(LastElement, "page")
                               THEN LastElement.page ELSE 1
          /\ NewElement.confidence = Similarity
          /\ HasKey(NewElement, "hallucination_warning")
          /\ NewElement.hallucination_warning = TRUE
    /\ \A k \in 1..Len(Output) :
          HasKey(Output[k], "hallucination_warning") <=>
             /\ Output[k].type \in TextTypes
             /\ ~ /\ Output[k].confidence >= engine.similarity_threshold
                  /\ Output[k].confidence > 0

(* a flagged element that inherits a bbox and a page of its own *)
C10_Witness ==
    /\ last.step = "text"
    /\ last.branch = "flagged"
    /\ HasKey(LastElement, "bbox")
    /\ NewElement.bbox # <<0, 0, 0, 0>>
    /\ NewElement.page # 1
    /\ Similarity > 0

(* the fragments a figure / table looks at from cursor c: up to three     *)
(* before the cursor and up to three from the cursor on                   *)
NeighbourWindow(c) == {i \in 0..(NumFrags - 1) : c - 3 <= i /\ i < c + 3}

(* C11: a figure / table never invokes the block matcher and leaves the   *)
(* cursor and the consumed set unchanged; if it is emitted, the element   *)
(* has the structural kind and text, page and confidence of the           *)
(* structural element (1 and 1.0 when absent) and the merge of the boxes  *)
(* of the neighbour window as bbox.                                       *)
C11_NonTextFrame ==
    [][(InMainLoop /\ CurrentElement.type \in NonTextTypes) =>
          /\ pymupdf_index' = pymupdf_index
          /\ used_pymupdf_blocks' = used_pymupdf_blocks
          /\ last'.m.visited = {}
          /\ last'.m.matched_blocks = <<>>
          /\ Len(reconciled') \in {Len(reconciled), Len(reconciled) + 1}
          /\ \A k \in 1..Len(reconciled) : reconciled'[k] = reconciled[k]
          /\ Len(reconciled') = Len(reconciled) + 1 =>
                LET new == reconciled'[Len(reconciled')]
                    window == NeighbourWindow(pymupdf_index)
                IN /\ new.type = CurrentElement.type
                   /\ new.text = CurrentElement.text
                   /\ new.page = IF HasKey(CurrentElement, "page")
                                 THEN CurrentElement.page ELSE 1
                   /\ new.confidence =
                         IF HasKey(CurrentElement, "confidence")
                         THEN CurrentElement.confidence ELSE 100
                   /\ window # {}
                   /\ new.bbox =
                         <<MinOf({Fragment(i).bbox[1] : i \in window}),
                           MinOf({Fragment(i).bbox[2] : i \in window}),
                           MaxOf({Fragment(i).bbox[3] : i \in window}),
                           MaxOf({Fragment(i).bbox[4] : i \in window})>>]_vars

(* a figure / table emitted at cursor 4 of five fragments, its box not    *)
(* reaching back to the first fragment, with a page and a confidence of   *)
(* its own                                                                *)
C11_Witness ==
    /\ last.step = "nontext"
    /\ last.branch = "emit"
    /\ last.cursor_before = 4
    /\ NumFrags = 5
    /\ NewElement.bbox[1] > Fragment(0).bbox[1]
    /\ NewElement.page = 2
    /\ NewElement.confidence = 70
    /\ pymupdf_index = 4
    /\ used_pymupdf_blocks = {0, 1, 2, 3}

(* the backward and the forward window of a figure / table at cursor c *)
BackwardWindow(c) == {i \in 0..(NumFrags - 1) : c - 3 <= i /\ i < c}

ForwardWindow(c) == {i \in 0..(NumFrags - 1) : c <= i /\ i < c + 3}

(* C12: a figure / table is skipped exactly when its backward and its     *)
(* forward window are both empty; otherwise exactly one element, of its   *)
(* kind, is appended for it.                                              *)
C12_SkipIffNoNeighbours ==
    [][(InMainLoop /\ CurrentElement.type \in NonTextTypes) =>
          LET skipped == reconciled' = reconciled
              emitted == /\ Len(reconciled') = Len(reconciled) + 1
                         /\ SubSeq(reconciled', 1, Len(reconciled)) = reconciled
                         /\ reconciled'[Len(reconciled')].type
                               = CurrentElement.type
          IN /\ skipped <=> (BackwardWindow(pymupdf_index) = {}
                             /\ ForwardWindow(pymupdf_index) = {})
             /\ ~skipped => emitted]_vars

(* Scenario E: a table was skipped in a document without fragments, after *)
(* a figure that was skipped too                                          *)
C12_Witness ==
    /\ last.step = "nontext"
    /\ last.branch = "skip"
    /\ LastElement.type = "table"
    /\ nougat_output[1].type = "figure"
    /\ NumFrags = 0
    /\ element_index = 2
    /\ reconciled = <<>>

(* C13 as stated: an engine whose similarity method is not levenshtein,   *)
(* fuzzy or cosine is rejected when it is constructed, so no reconcile    *)
(* call under such a configuration processes an element or returns a      *)
(* list.                                                                  *)
C13_RejectedAtConstruction ==
    engine.similarity_method \notin SupportedMethods =>
       /\ pc # "done"
       /\ element_index = 0
       /\ block_index = 0

(* C14 as stated: calculate_similarity raises the unsupported-method      *)
(* error for every method name other than levenshtein, fuzzy and cosine   *)
(* and every pair of inputs, empty ones included; it never returns a      *)
(* score then.                                                            *)
C14_UnsupportedAlwaysFails ==
    (/\ call.fn = "calculate_similarity"
     /\ call.method \notin SupportedMethods
     /\ result # NoResult) =>
        /\ result.status = "raised"
        /\ result.error = "ValueError"

(* C15: under a supported method calculate_similarity returns 0.0 when    *)
(* either input is empty; a header / paragraph / list with empty text is  *)
(* scored 0.0 without an error, and with a detection threshold above 0 it *)
(* is discarded, the output, the cursor and the consumed set staying as   *)
(* they were.                                                             *)
C15_EmptyTextScoresZero ==
    /\ []((/\ call.fn = "calculate_similarity"
           /\ call.method \in SupportedMethods
           /\ (call.text1 = <<>> \/ call.text2 = <<>>)
           /\ result # NoResult) =>
              result = [status |-> "returned", value |-> 0])
    /\ [][(AtTextElement /\ CurrentElement.text = <<>>) =>
             /\ pc' = pc
             /\ last'.step = "text"
             /\ last'.m.similarity = 0
             /\ last'.m.matched_blocks = <<>>
             /\ engine.hallucination_threshold > 0 =>
                   /\ last'.branch = "discard"
                   /\ reconciled' = reconciled
                   /\ pymupdf_index' = pymupdf_index
                   /\ used_pymupdf_blocks' = used_pymupdf_blocks]_vars

(* a list element without text discarded under the cosine method, two     *)
(* fragments being available                                              *)
C15_Witness ==
    /\ last.step = "text"
    /\ last.branch = "discard"
    /\ LastElement.text = <<>>
    /\ LastElement.type = "list"
    /\ engine.similarity_method = "cosine"
    /\ engine.hallucination_threshold > 0
    /\ NumFrags = 2
    /\ last.m.visited # {}

(* C16: merge_bboxes of a non-empty sequence returns the box of the least *)
(* left and top and the greatest right and bottom: it contains every      *)
(* input box and each of its sides is a side of some input box, so no     *)
(* smaller box contains them all; of the empty sequence it returns        *)
(* [0, 0, 0, 0].                                                          *)
C16_MergeIsSmallestCover ==
    (call.fn = "merge_bboxes" /\ result # NoResult) =>
       /\ result.status = "returned"
       /\ LET merged == result.value
              n == Len(call.bboxes)
          IN IF n = 0 THEN merged = <<0, 0, 0, 0>>
             ELSE /\ \A i \in 1..n :
                        /\ merged[1] <= call.bboxes[i][1]
                        /\ merged[2] <= call.bboxes[i][2]
                        /\ merged[3] >= call.bboxes[i][3]
                        /\ merged[4] >= call.bboxes[i][4]
                  /\ \A c \in 1..4 :
                        \E i \in 1..n : merged[c] = call.bboxes[i][c]

(* three boxes merged into a box that is none of them, the middle one     *)
(* reaching farthest                                                      *)
C16_Witness ==
    /\ call.fn = "merge_bboxes"
    /\ result # NoResult
    /\ Len(call.bboxes) = 3
    /\ \A i \in 1..3 : result.value # call.bboxes[i]
    /\ result.value[4] = call.bboxes[2][4]
    /\ result.value[4] > call.bboxes[1][4]
    /\ result.value[4] > call.bboxes[3][4]

(* C17: no step of reconcile changes the sequence of structural elements, *)
(* the sequence of fragments or a field of one of them, also where an     *)
(* output element holds the bbox list of an input; so they are as before  *)
(* the call when reconcile returns.                                       *)
C17_InputsNeverMutated ==
    [][InReconcile =>
          /\ nougat_output' = nougat_output
          /\ pymupdf_output' = pymupdf_output]_vars

(* reconcile returned after a flagged element that held the bbox list of  *)
(* its structural element absorbed a fragment and grew, an orphan element *)
(* holding the bbox list of its fragment                                  *)
C17_Witness ==
    /\ pc = "done"
    /\ Len(nougat_output) = 1
    /\ Len(returned) >= 2
    /\ HasKey(nougat_output[1], "bbox")
    /\ HasKey(returned[1], "hallucination_warning")
    /\ Len(returned[1].blocks) >= 1
    /\ returned[1].bbox # nougat_output[1].bbox
    /\ bbox_ref[1] = FreshRef
    /\ \E k \in 2..Len(returned) :
          /\ returned[k].type = "orphan"
          /\ bbox_ref[k] = BlockRef(returned[k].blocks[1])

(* a path whose parse cannot succeed *)
CannotParse(pdf_path) ==
    \/ ~PathExists(pdf_path)
    \/ ~is_pdf_file(pdf_path)
    \/ pdf_path.extractors = "throws"

(* C18 as stated: parse_batch returns one result per input path, in input *)
(* order; a path that does not exist, is not a PDF or makes a             *)
(* collaborator throw yields a failure result, and the paths after it are *)
(* processed all the same.                                                *)
C18_OneResultPerPath ==
    (call.fn = "parse_batch" /\ result # NoResult) =>
       /\ result.status = "returned"
       /\ Len(result.value) = Len(pdf_paths)
       /\ \A i \in 1..Len(pdf_paths) :
             /\ result.value[i].input_file = pdf_paths[i].name
             /\ CannotParse(pdf_paths[i]) => ~result.value[i].success

(* C19 as stated: parse of a path that does not exist, or of a file that  *)
(* is not a PDF, returns a result with success false and an error field   *)
(* and does not raise.                                                    *)
C19_InvalidPathReturnsFailure ==
    (/\ call.fn = "parse"
     /\ result # NoResult
     /\ ~PathExists(call.pdf_path) \/ ~is_pdf_file(call.pdf_path)) =>
        /\ result.status = "returned"
        /\ result.value.success = FALSE
        /\ HasKey(result.value, "error")

(* the dict names reconciliation.similarity.threshold *)
NamesThreshold(d) ==
    /\ HasKey(d, "reconciliation")
    /\ HasKey(d.reconciliation, "similarity")
    /\ HasKey(d.reconciliation.similarity, "threshold")

(* C20: after update_config with a value for                              *)
(* reconciliation.similarity.threshold, get_config returns that value and *)
(* the parser's reconciliation engine is the one built from the updated   *)
(* configuration, with that threshold; no step other than update_config   *)
(* changes the configuration or the engine, so every later parse          *)
(* reconciles under it.                                                   *)
C20_UpdateTakesEffect ==
    /\ [](/\ parser_pc # "none" => engine = ReconciliationEngine(config)
          /\ (call.fn = "update_config" /\ NamesThreshold(call.new_config)) =>
                /\ NamesThreshold(get_config(config))
                /\ get_config(config).reconciliation.similarity.threshold
                      = call.new_config.reconciliation.similarity.threshold
                /\ engine.similarity_threshold
                      = call.new_config.reconciliation.similarity.threshold)
    /\ [][call'.fn # "update_config" =>
             (config' = config /\ engine' = engine)]_vars

(* a parse after the threshold was raised from 0.8 to 0.9: the paragraph  *)
(* that scores 0.8 is now flagged                                         *)
C20_Witness ==
    /\ call.fn = "parse"
    /\ result.status = "returned"
    /\ call.pdf_path.name = "good.pdf"
    /\ result.value.success
    /\ engine.similarity_threshold = 90
    /\ get_config(config).reconciliation.similarity.threshold = 90
    /\ result.value.statistics.reconciliation.hallucination_warnings = 1

(* the step about to be taken accepts the current element as exact *)
AcceptsExact ==
    /\ AtTextElement
    /\ last'.step = "text"
    /\ last'.branch = "exact"
    /\ element_index' = element_index + 1

(* C21: on accept-exact exactly the fragment indices from the cursor up to *)
(* newCursor, the index just past the matched run, are added to the        *)
(* consumed set, none of them consumed before, and the cursor becomes      *)
(* newCursor; the matched run is contiguous and starts at or after the old *)
(* cursor, so the runs accepted in the main pass lie one after the other.  *)
C21_AcceptMarksInterval ==
    /\ [](pc = "main" =>
            \A k, j \in 1..Len(reconciled) :
               (/\ k < j
                /\ HasKey(reconciled[k], "blocks")
                /\ HasKey(reconciled[j], "blocks")
                /\ reconciled[k].blocks # <<>>
                /\ reconciled[j].blocks # <<>>) =>
                  reconciled[k].blocks[Len(reconciled[k].blocks)]
                     < reconciled[j].blocks[1])
    /\ [][AcceptsExact =>
            LET run == reconciled'[Len(reconciled')].blocks
                newCursor == run[Len(run)] + 1
                interval == {i \in 0..(NumFrags - 1) :
                                pymupdf_index <= i /\ i < newCursor}
            IN /\ Len(reconciled') = Len(reconciled) + 1
               /\ Len(run) >= 1
               /\ \A k \in 1..Len(run) : run[k] = run[1] + k - 1
               /\ run[1] >= pymupdf_index
               /\ newCursor <= NumFrags
               /\ pymupdf_index' = newCursor
               /\ interval \cap used_pymupdf_blocks = {}
               /\ used_pymupdf_blocks' = used_pymupdf_blocks \cup interval]_vars

(* a second run accepted after a first one, a fragment between the cursor  *)
(* and the run being consumed with it                                      *)
C21_Witness ==
    /\ pc = "main"
    /\ last.step = "text"
    /\ last.branch = "exact"
    /\ last.cursor_before > 0
    /\ last.m.matched_blocks[1] > last.cursor_before
    /\ Len(reconciled) = 2
    /\ last.cursor_before \in used_pymupdf_blocks
    /\ reconciled[1].blocks # <<>>

(* the step about to be taken processes the current header / paragraph /  *)
(* list, the matcher having returned                                      *)
ProcessesText ==
    /\ AtTextElement
    /\ last'.step = "text"
    /\ last'.branch # "raise"
    /\ element_index' = element_index + 1

(* C22: a header / paragraph / list whose similarity is below the         *)
(* threshold (or whose matched run is empty) is flagged or discarded and  *)
(* leaves the cursor and the consumed set as they were; flagged, it is    *)
(* appended to the output; discarded (similarity below the detection      *)
(* threshold), it leaves the output as it was too; the matcher of every   *)
(* element starts at the cursor its predecessors left.                    *)
C22_NoAdvanceBelowThreshold ==
    [][ProcessesText =>
          /\ last'.cursor_before = pymupdf_index
          /\ (\/ last'.m.similarity < engine.similarity_threshold
              \/ last'.m.matched_blocks = <<>>) =>
                /\ last'.branch \in {"flagged", "discard"}
                /\ pymupdf_index' = pymupdf_index
                /\ used_pymupdf_blocks' = used_pymupdf_blocks
                /\ last'.branch = "discard"
                      <=> last'.m.similarity < engine.hallucination_threshold
                /\ last'.branch = "discard" => reconciled' = reconciled
                /\ last'.branch = "flagged" =>
                      /\ Len(reconciled') = Len(reconciled) + 1
                      /\ SubSeq(reconciled', 1, Len(reconciled)) = reconciled
                      /\ reconciled'[Len(reconciled')].blocks = <<>>]_vars

(* Scenario B after an accepted element: an element that scores above 0   *)
(* but below the detection threshold is discarded, the cursor staying at  *)
(* 1 and the output at one element                                        *)
C22_Witness ==
    /\ last.step = "text"
    /\ last.branch = "discard"
    /\ Similarity > 0
    /\ last.cursor_before = 1
    /\ pymupdf_index = 1
    /\ used_pymupdf_blocks = {0}
    /\ Len(reconciled) = 1
    /\ element_index = 2

(* the score of the window of size x[1] at start x[2] against the text of *)
(* the element the latest step processed                                  *)
WindowScore(x) ==
    calculate_similarity(LastElement.text,
                         BlocksText(pymupdf_output, WindowBlocks(x[2], x[1])),
                         engine.similarity_method)

(* window x comes before window y in the order of the double loop *)
IteratedBefore(x, y) == x[1] < y[1] \/ (x[1] = y[1] /\ x[2] < y[2])

(* C23: the candidate windows of the matcher lie at or after startIndex   *)
(* and include those of every size below 10 that fits; the returned       *)
(* similarity is the maximal score over the candidates; if it is above 0  *)
(* the returned run is the first candidate in iteration order (smallest   *)
(* size, then smallest start) that has this score and endIndex is its     *)
(* start plus its size; otherwise the run is empty, endIndex = startIndex *)
(* and the similarity is 0.                                               *)
C23_BestFirstWindow ==
    MatcherReturned =>
       LET m == last.m
           start == last.cursor_before
       IN /\ \A x \in m.visited :
                /\ x[1] >= 1
                /\ x[2] >= start
                /\ x[2] + x[1] <= NumFrags
                /\ WindowScore(x) <= m.similarity
          /\ \A w \in 1..9 : \A i \in start..(NumFrags - w) :
                <<w, i>> \in m.visited
          /\ IF \E x \in m.visited : WindowScore(x) > 0
             THEN \E x \in m.visited :
                     /\ WindowScore(x) = m.similarity
                     /\ \A y \in m.visited :
                           IteratedBefore(y, x) => WindowScore(y) < m.similarity
                     /\ m.matched_blocks = [k \in 1..x[1] |-> x[2] + k - 1]
                     /\ m.new_index = x[2] + x[1]
             ELSE /\ m.matched_blocks = <<>>
                  /\ m.new_index = start
                  /\ m.similarity = 0

(* the matcher returned a window of one fragment although a window of two *)
(* fragments and a later window of one fragment score the same            *)
C23_Witness ==
    /\ MatcherReturned
    /\ Similarity > 0
    /\ Len(last.m.matched_blocks) = 1
    /\ \E x \in last.m.visited : x[1] = 2 /\ WindowScore(x) = Similarity
    /\ \E x \in last.m.visited :
          /\ x[1] = 1
          /\ x[2] > last.m.matched_blocks[1]
          /\ WindowScore(x) = Similarity

(* orphan element o, created earlier in the pass, lies on the page of the *)
(* current block and within the maximum distance of it                    *)
OrphanInReach(o) ==
    /\ orphan_elements[o].page = CurrentBlock.page
    /\ calculate_bbox_distance(CurrentBlock.bbox, orphan_elements[o].bbox)
          <= 4 * engine.orphan_max_distance * engine.orphan_max_distance

(* C24 as stated: the orphan loop handles the fragments in their original *)
(* order, and an orphan element created earlier in the pass is an         *)
(* absorption target: an unconsumed fragment with such an element in      *)
(* reach on its page, and no element of the main pass on that page, is    *)
(* merged into an orphan element and creates no second orphan element.    *)
C24_OrphanIsAbsorptionTarget ==
    [][InOrphanLoop =>
          /\ block_index' \in {block_index, block_index + 1}
          /\ (/\ AtOrphanBlock
              /\ \A k \in 1..Len(reconciled) :
                    reconciled[k].page # CurrentBlock.page
              /\ \E o \in 1..Len(orphan_elements) : OrphanInReach(o)) =>
                /\ Len(orphan_elements') = Len(orphan_elements)
                /\ \E o \in 1..Len(orphan_elements) :
                      /\ OrphanInReach(o)
                      /\ orphan_elements'[o].blocks =
                            Append(orphan_elements[o].blocks, block_index)]_vars

(* the keys the orphan step may rebind or extend *)
AbsorbedKeys == {"text", "bbox", "blocks"}

(* element b is element a but for its text, bbox and source fragments *)
SameButAbsorbed(a, b) ==
    /\ DOMAIN b = DOMAIN a
    /\ \A f \in DOMAIN a \ AbsorbedKeys : b[f] = a[f]

(* C25: a step of the main pass leaves every element already in the       *)
(* output as it is and only appends; a step of the orphan pass changes at *)
(* most the text, the bbox and the source fragments of one element, whose *)
(* kind, page, confidence and hallucination flag stay, and no step        *)
(* removes or reorders elements of the output.                            *)
C25_OutputElementsStable ==
    [][InReconcile =>
          /\ Len(reconciled') >= Len(reconciled)
          /\ pc = "main" =>
                SubSeq(reconciled', 1, Len(reconciled)) = reconciled
          /\ pc = "orphans" =>
                /\ \A k \in 1..Len(reconciled) :
                      SameButAbsorbed(reconciled[k], reconciled'[k])
                /\ \A k, j \in 1..Len(reconciled) :
                      (/\ reconciled'[k] # reconciled[k]
                       /\ reconciled'[j] # reconciled[j]) => k = j
                /\ Len(reconciled') > Len(reconciled) =>
                      /\ pc' = "done"
                      /\ SubSeq(reconciled', 1, Len(reconciled)) = reconciled
                      /\ reconciled' = reconciled \o orphan_elements]_vars

(* reconcile returned two flagged elements, the first grown by a fragment *)
(* it absorbed, the second as the main pass left it                       *)
C25_Witness ==
    /\ pc = "done"
    /\ Len(main_pass) = 2
    /\ returned[1].text # main_pass[1].text
    /\ returned[1].blocks # main_pass[1].blocks
    /\ returned[1].bbox # main_pass[1].bbox
    /\ HasKey(returned[1], "hallucination_warning")
    /\ returned[1].confidence \in 1..99
    /\ returned[2] = main_pass[2]

(* C26 as stated: every fragment index the main pass marks consumed is in *)
(* the source-fragment list of an element of the output, and once         *)
(* reconcile has returned every fragment with non-blank text is in the    *)
(* source fragments of exactly one output element.                        *)
C26_NoTextLost ==
    /\ \A i \in used_pymupdf_blocks : Occurrences(Output, i) >= 1
    /\ pc = "done" =>
          \A i \in 0..(NumFrags - 1) :
             StripNonEmpty(Fragment(i).text) => Occurrences(returned, i) = 1

(* an accepted (unflagged header / paragraph / list) or an orphan element *)
BuiltFromFragments(element) ==
    \/ element.type = "orphan"
    \/ /\ element.type \in TextTypes
       /\ ~HasKey(element, "hallucination_warning")

(* C27: every accepted element and every orphan element has, from the     *)
(* moment it is built and after every absorption, the single-space join   *)
(* of the texts of its source fragments, in list order, as text, and the  *)
(* smallest box around the boxes of its source fragments as bbox.         *)
C27_TextAndBoxFromFragments ==
    \A k \in 1..Len(Output) :
       BuiltFromFragments(Output[k]) =>
          LET blocks == Output[k].blocks
              boxes == {Fragment(blocks[n]).bbox : n \in 1..Len(blocks)}
          IN /\ Len(blocks) >= 1
             /\ Output[k].text =
                   Join([n \in 1..Len(blocks) |-> Fragment(blocks[n]).text])
             /\ Output[k].bbox = <<MinOf({b[1] : b \in boxes}),
                                   MinOf({b[2] : b \in boxes}),
                                   MaxOf({b[3] : b \in boxes}),
                                   MaxOf({b[4] : b \in boxes})>>

(* an element accepted with a run of three fragments absorbed a fourth    *)
(* one, its box growing with it                                           *)
C27_Witness ==
    /\ pc \in {"orphans", "done"}
    /\ Len(main_pass) >= 1
    /\ BuiltFromFragments(reconciled[1])
    /\ Len(main_pass[1].blocks) = 3
    /\ Len(reconciled[1].blocks) = 4
    /\ reconciled[1].bbox # main_pass[1].bbox

(* C28: with the cursor at the number of fragments, the matcher scores no *)
(* window and returns an empty run, similarity 0 and the cursor itself,   *)
(* whatever the text and the method; with a detection threshold above 0   *)
(* the header / paragraph / list is discarded, the output and the         *)
(* consumed set staying as they are; and the cursor stays at the end for  *)
(* the rest of the call.                                                  *)
C28_ExhaustedCursorDiscards ==
    [][(InReconcile /\ pymupdf_index = NumFrags) =>
          /\ pymupdf_index' = pymupdf_index
          /\ AtTextElement =>
                /\ pc' = pc
                /\ element_index' = element_index + 1
                /\ last'.step = "text"
                /\ last'.m.visited = {}
                /\ last'.m.matched_blocks = <<>>
                /\ last'.m.similarity = 0
                /\ last'.m.new_index = pymupdf_index
                /\ engine.hallucination_threshold > 0 =>
                      /\ last'.branch = "discard"
                      /\ reconciled' = reconciled
                      /\ used_pymupdf_blocks' = used_pymupdf_blocks]_vars

(* an element whose text is the text of a fragment is discarded, the      *)
(* cursor being at the end because that fragment was consumed             *)
C28_Witness ==
    /\ last.step = "text"
    /\ last.branch = "discard"
    /\ NumFrags >= 1
    /\ last.cursor_before = NumFrags
    /\ pymupdf_index = NumFrags
    /\ engine.hallucination_threshold > 0
    /\ \E i \in 0..(NumFrags - 1) :
          /\ i \in used_pymupdf_blocks
          /\ LowerText(Fragment(i).text) = LowerText(LastElement.text)

(* C29: in a document with fragments a figure / table is met at a cursor  *)
(* from 0 to the number of fragments and exactly one element, of its      *)
(* kind, is appended for it: at cursor 0 the forward window is not empty, *)
(* at the end the backward window is not; in a document without fragments *)
(* nothing is appended for it.                                            *)
C29_NonTextEmittedWithFragments ==
    [][(InMainLoop /\ CurrentElement.type \in NonTextTypes) =>
          /\ pymupdf_index \in 0..NumFrags
          /\ NumFrags = 0 => reconciled' = reconciled
          /\ NumFrags > 0 =>
                /\ Len(reconciled') = Len(reconciled) + 1
                /\ SubSeq(reconciled', 1, Len(reconciled)) = reconciled
                /\ LET new == reconciled'[Len(reconciled')]
                   IN /\ new.type = CurrentElement.type
                      /\ pymupdf_index = 0 =>
                            /\ new.surrounding_blocks.previous = <<>>
                            /\ new.surrounding_blocks.next # <<>>
                            /\ new.surrounding_blocks.next[1] = 0
                      /\ pymupdf_index = NumFrags =>
                            /\ new.surrounding_blocks.next = <<>>
                            /\ new.surrounding_blocks.previous # <<>>]_vars

(* a table met with the cursor at the end of a document of one fragment   *)
(* is emitted, its forward window empty                                   *)
C29_Witness ==
    /\ last.step = "nontext"
    /\ last.branch = "emit"
    /\ NumFrags = 1
    /\ last.cursor_before = 1
    /\ LastElement.type = "table"
    /\ NewElement.type = "table"
    /\ NewElement.surrounding_blocks.next = <<>>
    /\ NewElement.surrounding_blocks.previous = <<0>>
    /\ Len(reconciled) = 2

(* the dict names the option reconciliation.<section>.<key> *)
NamesOption(d, section, key) ==
    /\ HasKey(d, "reconciliation")
    /\ HasKey(d.reconciliation, section)
    /\ HasKey(d.reconciliation[section], key)

====
